---- MODULE Spec2Model ----
(***************************************************************************)
(* Gate course and scoring engine of airdrift.                             *)
(*                                                                         *)
(*   ScoreSystem  (src/unnamed/part_001, src/game/gameplay/ScoreSystem.ts) *)
(*   GateCourse   (src/src/game/gameplay/GateCourse.ts)                    *)
(*   Game         (src/unnamed/part_002): the frame loop, collision penalties *)
(*                                                                         *)
(* Number representation (JavaScript doubles are modelled by exact         *)
(* fixed-point integers):                                                  *)
(*   time            units of 0.05 s   (1.25 s = 25, 0.55 s = 11)          *)
(*   combo, flash    thousandths       (1.0 = 1000, 3.0 = 3000)            *)
(*   point arguments tenths of a point (100 points = 1000), so that        *)
(*                   Math.trunc has something to cut off                   *)
(*   speed           tenths of a m/s                                       *)
(*   lengths         units of 0.05 m   (320 m = 6400)                      *)
(* A number handed to the public API is a record [kind, v]: kind "fin"     *)
(* with value v, or "nan", or "inf" with v the sign.                       *)
(* displayScore (an exponential smoothing used by the HUD only) and the    *)
(* three.js meshes/materials are not modelled.                             *)
(***************************************************************************)
EXTENDS Integers, Sequences, FiniteSets, TLC

VARIABLES
  score,            \* the ScoreSystem object (record of its private fields)
  gates,            \* GateCourse.gates: sequence of Gate records
  lastLane,         \* GateCourse.lastLane
  sameLaneStreak,   \* GateCourse.sameLaneStreak
  fallbackForward,  \* GateCourse.fallbackForward
  crashCooldown,    \* Game.crashCooldown
  events,           \* history: what the last call did, in order
  sinceCrash,       \* history: tick time since the last onCrash (-1: none yet)
  sinceHit,         \* history: frame time since the last collision penalty (-1: none yet)
  laneLog,          \* history: the lanes chooseLane returned, most recent last
  credits,          \* history: per slot, onGateCleared calls since its last respawn
  misses,           \* history: per slot, onGateMissed calls since its last respawn
  sighted,          \* history: per slot, whether a tick since its last respawn found it
                    \*          ahead of the drone and within farRecycle
  steps             \* history: number of calls made so far

vars == <<score, gates, lastLane, sameLaneStreak, fallbackForward, crashCooldown,
          events, sinceCrash, sinceHit, laneLog, credits, misses, sighted, steps>>

gameVars == <<crashCooldown, sinceHit>>

courseVars ==
  <<gates, lastLane, sameLaneStreak, fallbackForward, laneLog, credits, misses, sighted>>

----------------------------------------------------------------------------
(* Arithmetic helpers                                                      *)

Max(a, b) == IF a >= b THEN a ELSE b

Min(a, b) == IF a <= b THEN a ELSE b

Abs(a) == IF a >= 0 THEN a ELSE -a

\* THREE.MathUtils.clamp
clamp(x, lo, hi) == Max(lo, Min(hi, x))

\* Numbers as the API receives them
Fin(n) == [kind |-> "fin", v |-> n]

NaN == [kind |-> "nan", v |-> 0]

Inf(sign) == [kind |-> "inf", v |-> sign]

\* mutation: every number taken for finite (a non-finite one read as its v)
IsFinite_Always(x) == TRUE

\* Number.isFinite
IsFinite(x) == x.kind = "fin"

\* Math.trunc of a value given in tenths: the integer part, toward zero
TruncTenths(p) == IF p >= 0 THEN p \div 10 ELSE -((-p) \div 10)

\* Math.trunc(raw * combo), combo in thousandths
TruncTimesCombo(raw, c) ==
  IF raw >= 0 THEN (raw * c) \div 1000 ELSE -(((-raw) * c) \div 1000)

----------------------------------------------------------------------------
(* ScoreSystem                                                             *)

COMBO_MAX == 3000

COMBO_GROW_PER_GATE == 120

\* thousandths of combo per second
COMBO_DECAY_PER_SEC == 180

CRASH_BASE == 120

CRASH_PER_SPEED == 22

\* 0.55 s
COMBO_LOCK_SEC == 11

\* timeSinceScore = 999 s
TIME_SENTINEL == 19980

\* the 1.25 s of update()
DECAY_AFTER == 25

\* penaltyFlash falls by 2.2 per second: 110 thousandths per time unit
FLASH_PER_UNIT == 110

\* field initialisers of the class
NewScoreSystem ==
  [score |-> 0, combo |-> 1000, streak |-> 0, gatesPassed |-> 0,
   gatesTotal |-> 0, lastAdd |-> 0, penaltyFlash |-> 0,
   timeSinceScore |-> TIME_SENTINEL, comboLock |-> 0]

\* the decay of one update: COMBO_DECAY_PER_SEC * dt, dt in twentieths of a second
DecayOf(dt) == (COMBO_DECAY_PER_SEC * dt) \div 20

\* mutation: the decay started after 1.0 s
DecayDue_Early(t) == t > 20

\* mutation: the comparison turned round
DecayDue_Flipped(t) == t < DECAY_AFTER

\* whether update() enters its decay branch
DecayDue(t) == t > DECAY_AFTER

\* update(dt)
ScoreUpdate(s, dt) ==
  LET t  == s.timeSinceScore + dt
      c  == IF DecayDue(t) THEN Max(1000, s.combo - DecayOf(dt)) ELSE s.combo
      st == IF DecayDue(t) /\ c = 1000 THEN 0 ELSE s.streak
  IN [s EXCEPT !.timeSinceScore = t,
               !.comboLock = Max(0, s.comboLock - dt),
               !.penaltyFlash = Max(0, s.penaltyFlash - dt * FLASH_PER_UNIT),
               !.combo = c,
               !.streak = st]

\* mutation: the Math.max(0, ...) left out
ScoreAfter_NoFloor(cur, applied) == cur + applied

\* the new score of add(): Math.max(0, score + applied)
ScoreAfter(cur, applied) == Max(0, cur + applied)

\* mutation: lastAdd set to the change of the score
ScoreAdd_LastChange(s, points, applyCombo) ==
  IF ~IsFinite(points) THEN s
  ELSE LET raw     == TruncTenths(points.v)
           applied == IF applyCombo THEN TruncTimesCombo(raw, s.combo) ELSE raw
       IN [s EXCEPT !.score = ScoreAfter(s.score, applied),
                    !.lastAdd = ScoreAfter(s.score, applied) - s.score,
                    !.timeSinceScore = IF applied # 0 THEN 0 ELSE s.timeSinceScore]

\* add(points, reason, applyCombo); points in tenths
ScoreAdd(s, points, applyCombo) ==
  IF ~IsFinite(points) THEN s
  ELSE LET raw     == TruncTenths(points.v)
           applied == IF applyCombo THEN TruncTimesCombo(raw, s.combo) ELSE raw
       IN [s EXCEPT !.score = ScoreAfter(s.score, applied),
                    !.lastAdd = applied,
                    !.timeSinceScore = IF applied # 0 THEN 0 ELSE s.timeSinceScore]

\* the comparison `x > 0` of JavaScript on an API number
Positive(x) == (x.kind = "fin" /\ x.v > 0) \/ (x.kind = "inf" /\ x.v > 0)

\* mutation: the comboLock test left out
GrowthAllowed_Always(s) == TRUE

\* mutation: the combo never grown
GrowthAllowed_Never(s) == FALSE

\* whether onGateCleared may grow the combo
GrowthAllowed(s) == s.comboLock <= 0

\* mutation: the clamp left out
GrownCombo_NoClamp(c) == c + COMBO_GROW_PER_GATE

\* clamp(combo + COMBO_GROW_PER_GATE, 1.0, COMBO_MAX)
GrownCombo(c) == clamp(c + COMBO_GROW_PER_GATE, 1000, COMBO_MAX)

\* mutation: the combo grown before the points are added
OnGateCleared_GrowFirst(s, base, centerBonus, speedBonus) ==
  LET s0 == [s EXCEPT !.gatesPassed = s.gatesPassed + 1,
                      !.combo = IF GrowthAllowed(s) THEN GrownCombo(s.combo) ELSE s.combo]
      s1 == ScoreAdd(s0, base, TRUE)
      s2 == IF Positive(centerBonus) THEN ScoreAdd(s1, centerBonus, TRUE) ELSE s1
      s3 == IF Positive(speedBonus) THEN ScoreAdd(s2, speedBonus, TRUE) ELSE s2
  IN [s3 EXCEPT !.streak = s3.streak + 1]

\* onGateCleared(base, centerBonus, speedBonus)
OnGateCleared(s, base, centerBonus, speedBonus) ==
  LET s0 == [s EXCEPT !.gatesPassed = s.gatesPassed + 1]
      s1 == ScoreAdd(s0, base, TRUE)
      s2 == IF Positive(centerBonus) THEN ScoreAdd(s1, centerBonus, TRUE) ELSE s1
      s3 == IF Positive(speedBonus) THEN ScoreAdd(s2, speedBonus, TRUE) ELSE s2
      s4 == [s3 EXCEPT !.streak = s3.streak + 1]
  IN IF GrowthAllowed(s4)
       THEN [s4 EXCEPT !.combo = GrownCombo(s4.combo)]
       ELSE s4

\* mutation: the streak left as it was
BreakCombo_KeepStreak(s, flash) ==
  [s EXCEPT !.combo = 1000,
            !.timeSinceScore = TIME_SENTINEL,
            !.penaltyFlash = IF flash THEN 1000 ELSE s.penaltyFlash]

\* breakCombo(flash)
BreakCombo(s, flash) ==
  [s EXCEPT !.combo = 1000,
            !.streak = 0,
            !.timeSinceScore = TIME_SENTINEL,
            !.penaltyFlash = IF flash THEN 1000 ELSE s.penaltyFlash]

\* mutation: Math.abs left out
NegAbs_Signed(x) ==
  IF x.kind = "fin" THEN Fin(-x.v)
  ELSE IF x.kind = "inf" THEN Inf(-x.v) ELSE NaN

\* -Math.abs(points)
NegAbs(x) ==
  IF x.kind = "fin" THEN Fin(-Abs(x.v))
  ELSE IF x.kind = "inf" THEN Inf(-1) ELSE NaN

\* mutation: a combo lock started as onCrash starts it
OnPenalty_WithLock(s, points) ==
  [BreakCombo(ScoreAdd(s, NegAbs(points), FALSE), TRUE) EXCEPT !.comboLock = COMBO_LOCK_SEC]

\* mutation: the penalty added with applyCombo = true
OnPenalty_WithCombo(s, points) == BreakCombo(ScoreAdd(s, NegAbs(points), TRUE), TRUE)

\* onPenalty(points)
OnPenalty(s, points) == BreakCombo(ScoreAdd(s, NegAbs(points), FALSE), TRUE)

\* Math.floor of a value given in tenths
FloorTenths(p) == p \div 10

\* mutation: the Math.max(CRASH_BASE, ...) left out
CrashPenalty_NoBase(speed) ==
  LET s10 == IF IsFinite(speed) THEN speed.v ELSE 0
  IN FloorTenths(CRASH_BASE * 10 + s10 * CRASH_PER_SPEED)

\* the penalty of onCrash; speed in tenths of a m/s, result in points
CrashPenalty(speed) ==
  LET s10 == IF IsFinite(speed) THEN speed.v ELSE 0
  IN Max(CRASH_BASE, FloorTenths(CRASH_BASE * 10 + s10 * CRASH_PER_SPEED))

\* the combo lock onCrash leaves
LockAfterCrash == COMBO_LOCK_SEC

\* onCrash(speed)
OnCrash(s, speed) ==
  LET s1 == ScoreAdd(s, Fin(-(CrashPenalty(speed) * 10)), FALSE)
      s2 == BreakCombo(s1, TRUE)
  IN [s2 EXCEPT !.comboLock = LockAfterCrash, !.penaltyFlash = 1000]

\* the value of a one-element set (binds an intermediate result once)
The(S) == CHOOSE x \in S : TRUE

\* one call GateCourse makes on this.score, as <<method, arguments...>>
ApplyCall(s, c) ==
  CASE c[1] = "onPenalty"     -> OnPenalty(s, c[2])
    [] c[1] = "breakCombo"    -> BreakCombo(s, c[2])
    [] c[1] = "onGateCleared" -> OnGateCleared(s, c[2], c[3], c[4])

RECURSIVE ApplyCalls(_, _)
\* the calls of cs made in order
ApplyCalls(s0, cs) ==
  The({ IF cs = <<>> THEN s ELSE ApplyCalls(ApplyCall(s, Head(cs)), Tail(cs)) : s \in {s0} })

----------------------------------------------------------------------------
(* GateCourse: constants (lengths in units of 0.05 m)                      *)

\* pool size; 22 in the source, scaled down here
gateCount == 2

\* gateW * 0.5 = 5.25 m
HALF_GATE_W == 105

\* gateH * 0.5 = 3.0 m
HALF_GATE_H == 60

\* triggerDepth * 0.5 = 1.6 m
HALF_TRIGGER_DEPTH == 32

spawnMin == 1400

spawnMax == 4400

lateralLane == 220

verticalCenter == 52

verticalJitter == 20

behindRecycle == 360

farRecycle == 6400

\* scoring; the points are in points, not tenths
basePoints == 100

centerBonusMax == 80

speedBonusMax == 50

\* 18 m/s, in tenths of a m/s
speedForMax == 180

missPenalty == 140

\* mutation: the flag switched off
missComboBreak_Off == FALSE

\* the private readonly flag missComboBreak
missComboBreak == TRUE

\* lanes = [-1, 0, +1]
lanes == <<-1, 0, 1>>

----------------------------------------------------------------------------
(* Vectors: <<x, y, z>>                                                    *)

VSub(a, b) == <<a[1] - b[1], a[2] - b[2], a[3] - b[3]>>

VAddScaled(a, v, k) == <<a[1] + v[1] * k, a[2] + v[2] * k, a[3] + v[3] * k>>

Dot(a, b) == a[1] * b[1] + a[2] * b[2] + a[3] * b[3]

\* squared length; dist > farRecycle is compared in squares
LengthSq(a) == Dot(a, a)

Sgn(a) == IF a > 0 THEN 1 ELSE IF a < 0 THEN -1 ELSE 0

\* Vector3.normalize of an axis-aligned vector (the velocities drawn are axis-aligned)
Normalize(v) == <<Sgn(v[1]), Sgn(v[2]), Sgn(v[3])>>

\* (0,0,-1) rotated about the Y axis by yaw quarter turns
YawForward(yaw) ==
  CASE yaw % 4 = 0 -> <<0, 0, -1>>
    [] yaw % 4 = 1 -> <<-1, 0, 0>>
    [] yaw % 4 = 2 -> <<0, 0, 1>>
    [] OTHER       -> <<1, 0, 0>>

\* the local X axis lookAt gives a group whose Z axis is z, with up = (0,1,0)
XAxisOf(z) == <<z[3], 0, -z[1]>>

\* mutation: the threshold at 0.4
VelocityMeaningful_Low(vel) == vel.x * vel.x + vel.z * vel.z > 40

\* velXZ.x * velXZ.x + velXZ.z * velXZ.z > 0.6, velocity in tenths of a m/s
VelocityMeaningful(vel) == vel.x * vel.x + vel.z * vel.z > 60

\* getForward(quat, velXZ): quat and velXZ are records with a `given` flag;
\* of the quaternion only the yaw of its YXZ Euler angles is read
getForward(quat, vel, fallback) ==
  IF vel.given /\ VelocityMeaningful(vel) THEN Normalize(<<vel.x, 0, vel.z>>)
  ELSE IF quat.given THEN YawForward(quat.yaw)
  ELSE fallback

----------------------------------------------------------------------------
(* GateCourse: gates                                                       *)

\* one Gate as buildGates makes it: identity rotation, staggered in front of the origin
NewGate(i) ==
  [position |-> <<0, verticalCenter, -1600 - i * 360>>,
   zAxis |-> <<0, 0, 1>>,
   passed |-> FALSE, wasAhead |-> FALSE, lane |-> 0]

\* buildGates: i = 0 .. gateCount-1 (slot i+1 of the sequence)
buildGates == [k \in 1..gateCount |-> NewGate(k - 1)]

\* mutation: the change forced one repeat later
ForceChange_Late(streak) == streak >= 3

\* mutation: no change forced
ForceChange_Never(streak) == FALSE

\* forceChange = this.sameLaneStreak >= 2
ForceChange(streak) == streak >= 2

\* the lane the draws select before the bookkeeping
PickLane(lastL, streak, r) ==
  LET forceChange == ForceChange(streak)
      choices     == SelectSeq(lanes, LAMBDA x : x # lastL)
  IN IF forceChange THEN choices[r.r2]
     ELSE IF r.bias THEN choices[r.r2]
     ELSE lanes[r.r1]

\* mutation: the streak not reset on a change of lane
chooseLane_NoReset(lastL, streak, r) ==
  LET lane == PickLane(lastL, streak, r)
  IN [lane |-> lane,
      lastLane |-> lane,
      sameLaneStreak |-> IF lane = lastL THEN streak + 1 ELSE streak]

\* chooseLane(): r holds the Math.random() draws as indices and the 35 % coin
chooseLane(lastL, streak, r) ==
  LET lane == PickLane(lastL, streak, r)
  IN [lane |-> lane,
      lastLane |-> lane,
      sameLaneStreak |-> IF lane = lastL THEN streak + 1 ELSE 0]

----------------------------------------------------------------------------
(* GateCourse.update                                                       *)
(* The loops thread a record w = [gates, score, lastLane, sameLaneStreak,  *)
(* laneLog, credits, misses, sighted, events] through the gates in pool     *)
(* order.                                                                  *)

\* how many of the last lanes laneLog keeps
LaneWindow == 4

Remember(log, lane) ==
  LET all == Append(log, lane)
  IN IF Len(all) > LaneWindow THEN Tail(all) ELSE all

\* one entry of the history `events`: what was done for one gate (or by one call);
\* passed/wasAhead are the gate's flags when it was decided, before/after the
\* ScoreSystem around it, calls the calls made on the ScoreSystem, nth the count of
\* misses (or credits) of the gate since its respawn, this one included
Event(op, slot, passed, wasAhead, before, after, calls, args, nth) ==
  [op |-> op, slot |-> slot, passed |-> passed, wasAhead |-> wasAhead,
   before |-> before, after |-> after, calls |-> calls, args |-> args, nth |-> nth]

\* toGate.dot(fwd)
AheadOf(g, pos, fwd) == Dot(VSub(g.position, pos), fwd)

\* shouldRecycle: ahead < -behindRecycle || dist > farRecycle
ShouldRecycle(g, pos, fwd) ==
  \/ AheadOf(g, pos, fwd) < -behindRecycle
  \/ LengthSq(VSub(g.position, pos)) > farRecycle * farRecycle

\* if (ahead > 0) g.wasAhead = true
TrackAhead(g, pos, fwd) ==
  [g EXCEPT !.wasAhead = g.wasAhead \/ AheadOf(g, pos, fwd) > 0]

\* mutation: the wasAhead test left out
IsMiss_NoAhead(g) == ~g.passed

\* the miss condition of update(): !g.passed && g.wasAhead
IsMiss(g) == ~g.passed /\ g.wasAhead

\* the calls onGateMissed makes on the ScoreSystem
MissCalls ==
  <<<<"onPenalty", Fin(missPenalty * 10)>>>> \o
  (IF missComboBreak THEN <<<<"breakCombo", TRUE>>>> ELSE <<>>)

\* what onGateMissed does to the gate
MissGate(g) == [g EXCEPT !.wasAhead = FALSE, !.passed = TRUE]

\* mutation: the flags left as a miss set them
RespawnFlags_Stale == [passed |-> TRUE, wasAhead |-> FALSE]

\* the flags respawnGate leaves: passed, wasAhead
RespawnFlags == [passed |-> FALSE, wasAhead |-> FALSE]

\* mutation: the gate put where the drone is
respawnGate_AtAgent(g, pos, fwd, lane, r) ==
  [g EXCEPT !.position = pos,
            !.zAxis = fwd,
            !.lane = lane,
            !.passed = RespawnFlags.passed,
            !.wasAhead = RespawnFlags.wasAhead]

\* respawnGate(g, pos, fwd) with the draws r; the lane comes from chooseLane
respawnGate(g, pos, fwd, lane, r) ==
  LET right   == Normalize(<<fwd[3], 0, -fwd[1]>>)
      lateral == lane * lateralLane + r.jit
      y       == verticalCenter + r.yj
      spawn   == VAddScaled(VAddScaled(pos, fwd, r.d), right, lateral)
  IN [g EXCEPT !.position = <<spawn[1], y, spawn[3]>>,
               !.zAxis = fwd,
               !.lane = lane,
               !.passed = RespawnFlags.passed,
               !.wasAhead = RespawnFlags.wasAhead]

\* mutation: a recycled gate pushed as a new record
Replace_Push(gs, i, g) == IF g.position = gs[i].position THEN [gs EXCEPT ![i] = g] ELSE Append(gs, g)

\* the pool with slot i repositioned in place
Replace(gs, i, g) == [gs EXCEPT ![i] = g]

\* loop 1, one gate: track, and when due: miss handling, then respawn
RecycleGateBody(w, i, pos, fwd, rnd) ==
  LET g1 == TrackAhead(w.gates[i], pos, fwd)
  IN IF ~ShouldRecycle(g1, pos, fwd)
       THEN [w EXCEPT !.gates = Replace(w.gates, i, g1),
                      !.sighted[i] = w.sighted[i] \/ AheadOf(g1, pos, fwd) > 0]
       ELSE
         LET miss  == IsMiss(g1)
             calls == IF miss THEN MissCalls ELSE <<>>
             sc    == ApplyCalls(w.score, calls)
             g2    == IF miss THEN MissGate(g1) ELSE g1
             n     == IF miss THEN w.misses[i] + 1 ELSE w.misses[i]
             cl    == chooseLane(w.lastLane, w.sameLaneStreak, rnd[i])
             g3    == respawnGate(g2, pos, fwd, cl.lane, rnd[i])
         IN [w EXCEPT !.gates = Replace(w.gates, i, g3),
                      !.score = sc,
                      !.lastLane = cl.lastLane,
                      !.sameLaneStreak = cl.sameLaneStreak,
                      !.laneLog = Remember(w.laneLog, cl.lane),
                      !.credits[i] = 0,
                      !.misses[i] = 0,
                      !.sighted[i] = FALSE,
                      !.events = Append(w.events,
                         Event("recycle", i, g1.passed, g1.wasAhead, w.score, sc,
                               calls, <<cl.lane, w.sighted[i]>>, n))]

RecycleGate(w0, i, pos, fwd, rnd) ==
  The({ RecycleGateBody(w, i, pos, fwd, rnd) : w \in {w0} })

RECURSIVE RecyclePass(_, _, _, _, _)
\* loop 1: for (const g of this.gates), from slot i on
RecyclePass(w0, i, pos, fwd, rnd) ==
  The({ IF i > Len(w.gates) THEN w
        ELSE RecyclePass(RecycleGate(w, i, pos, fwd, rnd), i + 1, pos, fwd, rnd)
        : w \in {w0} })

\* g.group.worldToLocal(pos): <<lx, ly, lz>>
worldToLocal(g, pos) ==
  LET rel == VSub(pos, g.position)
  IN <<Dot(rel, XAxisOf(g.zAxis)), rel[2], Dot(rel, g.zAxis)>>

\* the three containment tests of loop 2
Inside(l) ==
  /\ ~(Abs(l[3]) > HALF_TRIGGER_DEPTH)
  /\ ~(Abs(l[1]) > HALF_GATE_W)
  /\ ~(Abs(l[2]) > HALF_GATE_H)

\* floor(centerBonusMax * clamp(1 - sqrt(nx^2 + ny^2), 0, 1)), nx = |lx|/105, ny = |ly|/60:
\* the largest k with sqrt(nx^2 + ny^2) <= 1 - k/80, compared in squares after
\* dividing both sides by (15 * 20)^2
CenterScore(l) ==
  LET m     == 16 * (16 * l[1] * l[1] + 49 * l[2] * l[2])
      ok(k) == k = 0 \/ m <= (centerBonusMax - k) * (centerBonusMax - k) * 441
  IN CHOOSE k \in 0..centerBonusMax : ok(k) /\ (k = centerBonusMax \/ ~ok(k + 1))

\* mutation: the clamp left out
SpeedScore_NoClamp(speed) == (speedBonusMax * speed) \div speedForMax

\* floor(speedBonusMax * clamp(speed / speedForMax, 0, 1))
SpeedScore(speed) == (speedBonusMax * clamp(speed, 0, speedForMax)) \div speedForMax

\* mutation: the guard left out
Skipped_Never(g) == FALSE

\* the guard of loop 2: if (g.passed) continue
Skipped(g) == g.passed

\* loop 2, one gate
PassGateBody(w, i, pos, speed) ==
  LET g == w.gates[i]
      l == worldToLocal(g, pos)
  IN IF Skipped(g) \/ ~Inside(l) THEN w
     ELSE
       LET calls == <<<<"onGateCleared", Fin(basePoints * 10),
                       Fin(CenterScore(l) * 10), Fin(SpeedScore(speed) * 10)>>>>
           sc    == ApplyCalls(w.score, calls)
       IN [w EXCEPT !.gates = Replace(w.gates, i, [g EXCEPT !.passed = TRUE, !.wasAhead = FALSE]),
                    !.score = sc,
                    !.credits[i] = w.credits[i] + 1,
                    !.events = Append(w.events,
                       Event("cleared", i, g.passed, g.wasAhead, w.score, sc,
                             calls, l, w.credits[i] + 1))]

PassGate(w0, i, pos, speed) ==
  The({ PassGateBody(w, i, pos, speed) : w \in {w0} })

RECURSIVE PassChecks(_, _, _, _)
\* loop 2: for (const g of this.gates), from slot i on
PassChecks(w0, i, pos, speed) ==
  The({ IF i > Len(w.gates) THEN w
        ELSE PassChecks(PassGate(w, i, pos, speed), i + 1, pos, speed)
        : w \in {w0} })

\* mutation: the pass checks made before the recycling
CourseUpdate_PassFirst(w, pos, speed, fwd, rnd) ==
  RecyclePass(PassChecks(w, 1, pos, speed), 1, pos, fwd, rnd)

\* update(dt, pos, speed, quat, velXZ) once the forward vector is known
CourseUpdate(w, pos, speed, fwd, rnd) ==
  PassChecks(RecyclePass(w, 1, pos, fwd, rnd), 1, pos, speed)

----------------------------------------------------------------------------
(* Initial state: the objects as their constructors leave them             *)

InitCourse ==
  /\ gates = buildGates
  /\ lastLane = 0
  /\ sameLaneStreak = 0
  /\ fallbackForward = <<0, 0, -1>>
  /\ laneLog = <<>>
  /\ credits = [i \in 1..gateCount |-> 0]
  /\ misses = [i \in 1..gateCount |-> 0]
  /\ sighted = [i \in 1..gateCount |-> FALSE]

InitHistory ==
  /\ events = <<>>
  /\ sinceCrash = -1
  /\ sinceHit = -1
  /\ steps = 0

Init ==
  /\ score = NewScoreSystem
  /\ crashCooldown = 0
  /\ InitCourse
  /\ InitHistory

\* tick time since the last crash, counted up to the lock length
Elapse(t, dt) == IF t < 0 THEN t ELSE Min(t + dt, COMBO_LOCK_SEC)

----------------------------------------------------------------------------
(* The frame of Game.loop: gates.update(...) and then score.update(dt)     *)

\* frames per behaviour
MaxFrames == 3

\* dt = Math.min(dt, 1 / 20)
FrameDts == {1}

\* what the drone hands to update(): quaternion, XZ velocity (tenths of a m/s), speed
Motions ==
  { [quat |-> [given |-> TRUE, yaw |-> 1], vel |-> [given |-> TRUE, x |-> 0, z |-> -180],
     speed |-> 180],
    [quat |-> [given |-> FALSE, yaw |-> 0], vel |-> [given |-> TRUE, x |-> 0, z |-> 180],
     speed |-> 180],
    [quat |-> [given |-> TRUE, yaw |-> 1], vel |-> [given |-> TRUE, x |-> 5, z |-> 0],
     speed |-> 5],
    [quat |-> [given |-> FALSE, yaw |-> 0], vel |-> [given |-> FALSE, x |-> 0, z |-> 0],
     speed |-> 0] }

\* where the drone is, relative to a gate: <<along the gate's Z axis, along its X axis, up>>
Offsets == { <<0, 0, 0>>, <<400, 0, 0>> }

PlaceAt(g, off) ==
  LET p == VAddScaled(VAddScaled(g.position, g.zAxis, off[1]), XAxisOf(g.zAxis), off[2])
  IN <<p[1], p[2] + off[3], p[3]>>

\* a place 350 m from the origin, more than farRecycle from the gates as built
FarPoint == <<0, verticalCenter, 7000>>

\* the drone positions drawn: the start, the far place, and the places around each gate
AgentPositions ==
  {<<0, verticalCenter, 0>>, FarPoint} \cup
  { PlaceAt(gates[i], off) : i \in 1..Len(gates), off \in Offsets }

\* the Math.random() draws of one respawn
SpawnDistances == {1400}

LateralJitters == {0}

VerticalJitters == {0}

LaneDraws == [r1 : 1..3, bias : BOOLEAN, r2 : 1..2]

\* the lane draws of a frame: each lane chooseLane can return is the result of one of them
FrameLaneDraws ==
  {r \in LaneDraws : (r.bias /\ r.r1 = 1) \/ (~r.bias /\ r.r2 = 1)}

Draws ==
  { [d |-> d, r1 |-> r.r1, bias |-> r.bias, r2 |-> r.r2, jit |-> j, yj |-> y] :
      d \in SpawnDistances, r \in FrameLaneDraws, j \in LateralJitters, y \in VerticalJitters }

\* private readonly CRASH_COOLDOWN_SEC = 0.35
CRASH_COOLDOWN_SEC == 7

ElapseHit(t, dt) == IF t < 0 THEN t ELSE Min(t + dt, CRASH_COOLDOWN_SEC)

\* mutation: the cooldown not looked at
CoolingDown_Never(cd) == FALSE

\* if (this.crashCooldown > 0) return;
CoolingDown(cd) == cd > 0

\* penalty = Math.max(60, Math.floor(speed * 35)), speed in tenths of a m/s
CollisionPenalty(speed) == Max(60, (speed * 35) \div 10)

\* one collision event of the queue as the callback sees it: started, whether both
\* colliders and their parents are found, and whether one parent is the drone's body
Hit(started, found, drone) == [started |-> started, found |-> found, drone |-> drone]

\* the callback of drainCollisionEvents for the event h; g = [score, crashCooldown,
\* events], elapsed the frame time since the last collision penalty
OnCollisionEvent(g, h, speed, elapsed) ==
  IF ~h.started THEN g
  ELSE IF CoolingDown(g.crashCooldown) THEN g
  ELSE IF ~h.found THEN g
  ELSE IF ~h.drone THEN g
  ELSE LET calls == <<<<"onPenalty", Fin(CollisionPenalty(speed) * 10)>>>>
           sc    == ApplyCalls(g.score, calls)
       IN [g EXCEPT !.score = sc,
                    !.crashCooldown = CRASH_COOLDOWN_SEC,
                    !.events = Append(g.events,
                       Event("collision", 0, FALSE, FALSE, g.score, sc, calls,
                             <<CollisionPenalty(speed), elapsed>>, 0))]

RECURSIVE DrainEvents(_, _, _, _, _)
\* drainCollisionEvents: the callback for the events hits[i], hits[i+1], ...
DrainEvents(g, hits, i, speed, elapsed) ==
  IF i > Len(hits) THEN g
  ELSE DrainEvents(OnCollisionEvent(g, hits[i], speed, elapsed), hits, i + 1, speed, elapsed)

\* drainCollisionPenalties(speed) with hits in the event queue
drainCollisionPenalties(g, hits, speed, elapsed) ==
  IF CoolingDown(g.crashCooldown) THEN g
  ELSE DrainEvents(g, hits, 1, speed, elapsed)

\* the body of Game.loop: the cooldown, the collision penalties, gates.update and
\* score.update; hits is what the event queue holds, D the respawn draws
LoopWith(dt, pos, m, D, hits) ==
  /\ LET fwd == getForward(m.quat, m.vel, fallbackForward)
         due == {i \in 1..Len(gates) : ShouldRecycle(gates[i], pos, fwd)}
         g0  == [score |-> score,
                 crashCooldown |-> Max(0, crashCooldown - dt),
                 events |-> <<Event("update", 0, FALSE, FALSE, score, score, <<>>,
                                    <<pos, fwd, m.speed, dt, hits>>, 0)>>]
         dr  == drainCollisionPenalties(g0, hits, m.speed,
                                        IF sinceHit < 0 THEN sinceHit ELSE sinceHit + dt)
         w0  == [gates |-> gates, score |-> dr.score, lastLane |-> lastLane,
                 sameLaneStreak |-> sameLaneStreak, laneLog |-> laneLog,
                 credits |-> credits, misses |-> misses, sighted |-> sighted,
                 events |-> dr.events]
     IN \E rnd \in [due -> D] :
          \E w \in {CourseUpdate(w0, pos, m.speed, fwd, rnd)} :
             /\ fallbackForward' = fwd
             /\ gates' = w.gates
             /\ lastLane' = w.lastLane
             /\ sameLaneStreak' = w.sameLaneStreak
             /\ laneLog' = w.laneLog
             /\ credits' = w.credits
             /\ misses' = w.misses
             /\ sighted' = w.sighted
             /\ events' = w.events
             /\ score' = ScoreUpdate(w.score, dt)
             /\ crashCooldown' = dr.crashCooldown
             /\ sinceHit' = IF Len(dr.events) > 1 THEN 0 ELSE ElapseHit(sinceHit, dt)
  /\ sinceCrash' = Elapse(sinceCrash, dt)
  /\ steps' = steps + 1

\* one frame of Game.loop without collision events, the respawn draws taken from D
FrameWith(dt, pos, m, D) ==
  /\ steps < MaxFrames
  /\ LoopWith(dt, pos, m, D, <<>>)

Frame(dt, pos, m) == FrameWith(dt, pos, m, Draws)

Next == \E dt \in FrameDts, pos \in AgentPositions, m \in Motions : Frame(dt, pos, m)

Spec == Init /\ [][Next]_vars

----------------------------------------------------------------------------
(* Frames flown through and past the gates at many speeds                  *)

\* places in and around the trigger volume: the centre, off centre, the rim of the
\* frame, the face of the trigger slab, and just outside
PassOffsets == { <<0, 0, 0>>, <<0, 42, 24>>, <<0, 105, 0>>, <<32, 0, 60>>, <<0, 106, 0>> }

\* speeds in tenths of a m/s: at rest, slow, half, just under 18 m/s, 18 m/s, 40 m/s
PassSpeeds == {0, 1, 90, 179, 180, 400}

NextPass ==
  \E dt \in FrameDts, i \in 1..Len(gates), off \in PassOffsets, sp \in PassSpeeds :
    Frame(dt, PlaceAt(gates[i], off),
          [quat |-> [given |-> FALSE, yaw |-> 0],
           vel |-> [given |-> FALSE, x |-> 0, z |-> 0], speed |-> sp])

SpecPass == Init /\ [][NextPass]_vars

----------------------------------------------------------------------------
(* Frames whose respawns draw the ends of the ranges of Math.random(), flown *)
(* at ground level and high above it                                       *)

\* frames per behaviour of the respawn frames
RespawnFrames == 2

\* a place 325 m above the origin
HighPoint == <<0, 6500, 0>>

\* the start, the far place, the high place, and the middle of the first gate
RespawnPositions ==
  {<<0, verticalCenter, 0>>, FarPoint, HighPoint, PlaceAt(gates[1], <<0, 0, 0>>)}

\* d just short of spawnMax with the jitters at their upper ends, and d = spawnMin with
\* the jitters at their lower ends (lateralLane * 0.18 = 1.98 m, verticalJitter = 1 m)
RespawnCorners ==
  { [d |-> spawnMin, jit |-> -39, yj |-> -verticalJitter],
    [d |-> spawnMax - 1, jit |-> 39, yj |-> verticalJitter] }

RespawnDraws ==
  { [d |-> c.d, r1 |-> r.r1, bias |-> r.bias, r2 |-> r.r2, jit |-> c.jit, yj |-> c.yj] :
      c \in RespawnCorners, r \in FrameLaneDraws }

\* flying along -Z, and along +Z
RespawnMotions ==
  { [quat |-> [given |-> FALSE, yaw |-> 0], vel |-> [given |-> TRUE, x |-> 0, z |-> v],
     speed |-> 180] : v \in {-180, 180} }

NextRespawn ==
  /\ steps < RespawnFrames
  /\ \E dt \in FrameDts, pos \in RespawnPositions, m \in RespawnMotions :
       FrameWith(dt, pos, m, RespawnDraws)

SpecRespawn == Init /\ [][NextRespawn]_vars

----------------------------------------------------------------------------
(* Frames with collisions: the drone stays in front of the gates or in the  *)
(* first gate while the physics step reports collision events               *)

\* frames per behaviour of the collision frames
CollideFrames == 8

\* dt after Math.min(dt, 1 / 20): no time at all, and the full 0.05 s
CollideDts == {0, 1}

\* what the event queue holds when it is drained
CollisionQueues ==
  { <<>>,
    <<Hit(TRUE, TRUE, TRUE)>>,
    <<Hit(TRUE, TRUE, TRUE), Hit(TRUE, TRUE, TRUE)>>,
    <<Hit(FALSE, TRUE, TRUE), Hit(TRUE, TRUE, FALSE), Hit(TRUE, FALSE, FALSE)>>,
    <<Hit(TRUE, TRUE, FALSE), Hit(TRUE, TRUE, TRUE), Hit(TRUE, TRUE, TRUE)>> }

\* flying along -Z at 1 m/s and at 18 m/s
CollideMotions ==
  { [quat |-> [given |-> FALSE, yaw |-> 0], vel |-> [given |-> TRUE, x |-> 0, z |-> -v],
     speed |-> v] : v \in {10, 180} }

CollidePositions == {<<0, verticalCenter, 0>>, PlaceAt(gates[1], <<0, 0, 0>>)}

NextCollide ==
  /\ steps < CollideFrames
  /\ \E dt \in CollideDts, pos \in CollidePositions, m \in CollideMotions,
        hits \in CollisionQueues :
       LoopWith(dt, pos, m, Draws, hits)

SpecCollide == Init /\ [][NextCollide]_vars

----------------------------------------------------------------------------
(* GateCourse.update handed NaN: the same code in IEEE arithmetic.  The    *)
(* position and the speed are API numbers; the non-finite value drawn is   *)
(* NaN, which every arithmetic operation hands on and for which every      *)
(* comparison is false.                                                    *)

\* a + b, a - b, a * b and |a| on API numbers that are finite or NaN
NAdd(a, b) == IF IsFinite(a) /\ IsFinite(b) THEN Fin(a.v + b.v) ELSE NaN

NSub(a, b) == IF IsFinite(a) /\ IsFinite(b) THEN Fin(a.v - b.v) ELSE NaN

NMul(a, b) == IF IsFinite(a) /\ IsFinite(b) THEN Fin(a.v * b.v) ELSE NaN

NAbs(a) == IF IsFinite(a) THEN Fin(Abs(a.v)) ELSE NaN

\* a > k and a < k
NGt(a, k) == IsFinite(a) /\ a.v > k

NLt(a, k) == IsFinite(a) /\ a.v < k

\* a vector of the model as a vector of API numbers, and back (NaN has v = 0)
NVec(v) == <<Fin(v[1]), Fin(v[2]), Fin(v[3])>>

Plain(v) == <<v[1].v, v[2].v, v[3].v>>

VecFinite(v) == IsFinite(v[1]) /\ IsFinite(v[2]) /\ IsFinite(v[3])

NVSub(a, b) == <<NSub(a[1], b[1]), NSub(a[2], b[2]), NSub(a[3], b[3])>>

NDot(a, b) == NAdd(NAdd(NMul(a[1], b[1]), NMul(a[2], b[2])), NMul(a[3], b[3]))

\* toGate.dot(fwd)
NAheadOf(g, pos, fwd) == NDot(NVSub(NVec(g.position), pos), NVec(fwd))

\* toGate.length(), squared
NDistSq(g, pos) ==
  LET toGate == NVSub(NVec(g.position), pos)
  IN NDot(toGate, toGate)

\* shouldRecycle
NShouldRecycle(g, pos, fwd) ==
  \/ NLt(NAheadOf(g, pos, fwd), -behindRecycle)
  \/ NGt(NDistSq(g, pos), farRecycle * farRecycle)

\* if (ahead > 0) g.wasAhead = true
NTrackAhead(g, pos, fwd) ==
  [g EXCEPT !.wasAhead = g.wasAhead \/ NGt(NAheadOf(g, pos, fwd), 0)]

\* loop 1, one gate.  The recycle branch is entered with a finite pos only: with a
\* NaN component ahead and dist are NaN and neither comparison of shouldRecycle holds.
NRecycleGate(w0, i, pos, fwd, rnd) ==
  The({ IF NShouldRecycle(w.gates[i], pos, fwd)
          THEN RecycleGate(w, i, Plain(pos), fwd, rnd)
          ELSE [w EXCEPT !.gates = Replace(w.gates, i, NTrackAhead(w.gates[i], pos, fwd)),
                         !.sighted[i] = w.sighted[i] \/ NGt(NAheadOf(w.gates[i], pos, fwd), 0)]
        : w \in {w0} })

RECURSIVE NRecyclePass(_, _, _, _, _)
NRecyclePass(w0, i, pos, fwd, rnd) ==
  The({ IF i > Len(w.gates) THEN w
        ELSE NRecyclePass(NRecycleGate(w, i, pos, fwd, rnd), i + 1, pos, fwd, rnd)
        : w \in {w0} })

\* g.group.worldToLocal(pos): every component is a sum over all three of x, y, z
NworldToLocal(g, pos) ==
  LET rel == NVSub(pos, NVec(g.position))
  IN <<NDot(rel, NVec(XAxisOf(g.zAxis))), NDot(rel, NVec(<<0, 1, 0>>)),
       NDot(rel, NVec(g.zAxis))>>

\* the three containment tests: each `if (Math.abs(l) > half) continue`
NInside(l) ==
  /\ ~NGt(NAbs(l[3]), HALF_TRIGGER_DEPTH)
  /\ ~NGt(NAbs(l[1]), HALF_GATE_W)
  /\ ~NGt(NAbs(l[2]), HALF_GATE_H)

\* centerScore, in tenths: Math.floor of a NaN is NaN
NCenterScore(l) == IF VecFinite(l) THEN Fin(CenterScore(Plain(l)) * 10) ELSE NaN

\* speedScore, in tenths
NSpeedScore(speed) == IF IsFinite(speed) THEN Fin(SpeedScore(speed.v) * 10) ELSE NaN

\* loop 2, one gate
NPassGate(w0, i, pos, speed) ==
  The({ LET g == w.gates[i]
            l == NworldToLocal(g, pos)
        IN IF Skipped(g) \/ ~NInside(l) THEN w
           ELSE
             LET calls == <<<<"onGateCleared", Fin(basePoints * 10),
                             NCenterScore(l), NSpeedScore(speed)>>>>
                 sc    == ApplyCalls(w.score, calls)
             IN [w EXCEPT !.gates = Replace(w.gates, i, [g EXCEPT !.passed = TRUE, !.wasAhead = FALSE]),
                          !.score = sc,
                          !.credits[i] = w.credits[i] + 1,
                          !.events = Append(w.events,
                             Event("cleared", i, g.passed, g.wasAhead, w.score, sc,
                                   calls, l, w.credits[i] + 1))]
        : w \in {w0} })

RECURSIVE NPassChecks(_, _, _, _)
NPassChecks(w0, i, pos, speed) ==
  The({ IF i > Len(w.gates) THEN w
        ELSE NPassChecks(NPassGate(w, i, pos, speed), i + 1, pos, speed)
        : w \in {w0} })

\* update(dt, pos, speed, quat, velXZ) once the forward vector is known
NCourseUpdate(w, pos, speed, fwd, rnd) ==
  NPassChecks(NRecyclePass(w, 1, pos, fwd, rnd), 1, pos, speed)

\* the positions drawn: the start and the gates' places, as they are and with x = NaN
InputPositions ==
  LET ps == {<<0, verticalCenter, 0>>} \cup {gates[i].position : i \in 1..Len(gates)}
  IN {NVec(p) : p \in ps} \cup {<<NaN, Fin(p[2]), Fin(p[3])>> : p \in ps}

InputSpeeds == {Fin(180), NaN}

InputMotions ==
  { [quat |-> [given |-> FALSE, yaw |-> 0], vel |-> [given |-> TRUE, x |-> 0, z |-> 180]],
    [quat |-> [given |-> FALSE, yaw |-> 0], vel |-> [given |-> FALSE, x |-> 0, z |-> 0]] }

InputFrame(dt, pos, speed, m) ==
  /\ steps < MaxFrames
  /\ LET fwd == getForward(m.quat, m.vel, fallbackForward)
         due == {i \in 1..Len(gates) : NShouldRecycle(gates[i], pos, fwd)}
         w0  == [gates |-> gates, score |-> score, lastLane |-> lastLane,
                 sameLaneStreak |-> sameLaneStreak, laneLog |-> laneLog,
                 credits |-> credits, misses |-> misses, sighted |-> sighted,
                 events |-> <<Event("update", 0, FALSE, FALSE, score, score, <<>>,
                                    <<pos, fwd, speed, dt, m, fallbackForward>>, 0)>>]
     IN \E rnd \in [due -> Draws] :
          \E w \in {NCourseUpdate(w0, pos, speed, fwd, rnd)} :
             /\ fallbackForward' = fwd
             /\ gates' = w.gates
             /\ lastLane' = w.lastLane
             /\ sameLaneStreak' = w.sameLaneStreak
             /\ laneLog' = w.laneLog
             /\ credits' = w.credits
             /\ misses' = w.misses
             /\ sighted' = w.sighted
             /\ events' = w.events
             /\ score' = ScoreUpdate(w.score, dt)
  /\ crashCooldown' = Max(0, crashCooldown - dt)
  /\ sinceHit' = ElapseHit(sinceHit, dt)
  /\ sinceCrash' = Elapse(sinceCrash, dt)
  /\ steps' = steps + 1

NextInput ==
  \E dt \in FrameDts, pos \in InputPositions, sp \in InputSpeeds, m \in InputMotions :
    InputFrame(dt, pos, sp, m)

SpecInput == Init /\ [][NextInput]_vars

----------------------------------------------------------------------------
(* The forward vector: updates with and without velocity and orientation   *)

\* velocities just below and just above the 0.6 of getForward (0.7^2 and 0.8^2),
\* with and without a quaternion, and neither
ForwardMotions ==
  { [quat |-> [given |-> TRUE, yaw |-> 1], vel |-> [given |-> TRUE, x |-> 0, z |-> 8]],
    [quat |-> [given |-> TRUE, yaw |-> 1], vel |-> [given |-> TRUE, x |-> 0, z |-> 7]],
    [quat |-> [given |-> FALSE, yaw |-> 0], vel |-> [given |-> TRUE, x |-> 7, z |-> 0]],
    [quat |-> [given |-> TRUE, yaw |-> 2], vel |-> [given |-> FALSE, x |-> 0, z |-> 0]],
    [quat |-> [given |-> FALSE, yaw |-> 0], vel |-> [given |-> FALSE, x |-> 0, z |-> 0]] }

ForwardPositions ==
  {NVec(<<0, verticalCenter, 0>>)} \cup {NVec(gates[i].position) : i \in 1..Len(gates)}

NextForward ==
  \E dt \in FrameDts, pos \in ForwardPositions, m \in ForwardMotions :
    InputFrame(dt, pos, Fin(8), m)

SpecForward == Init /\ [][NextForward]_vars

----------------------------------------------------------------------------
(* The ScoreSystem alone: its public methods called in any order           *)

\* calls per behaviour
MaxCalls == 4

\* gate clears made before the first call drawn
WarmClears == 16

RECURSIVE ClearTimes(_, _)
\* the ScoreSystem after n dead-centre clears at full speed
ClearTimes(s, n) ==
  IF n = 0 THEN s
  ELSE ClearTimes(The({OnGateCleared(x, Fin(1000), Fin(800), Fin(500)) : x \in {s}}), n - 1)

InitScore ==
  /\ score \in {NewScoreSystem, ClearTimes(NewScoreSystem, WarmClears)}
  /\ crashCooldown = 0
  /\ InitCourse
  /\ InitHistory

\* the arguments drawn, points in tenths, speeds in tenths of a m/s, dt in time units
AddPoints == {Fin(-50005), Fin(75)}

ClearArgs ==
  {<<Fin(1000), Fin(800), Fin(500)>>, <<Fin(1000), Fin(0), Fin(0)>>,
   <<Fin(1005), Fin(805), Fin(505)>>}

PenaltyPoints == {Fin(1400), Fin(-605), Fin(5)}

CrashSpeeds == {Fin(100), Fin(103), Fin(-30)}

UpdateDts == {0, 5, 30, 300}

\* one public call: the object changes to s, the history records the call
Call(op, args, s, dt) ==
  /\ steps < MaxCalls
  /\ score' = s
  /\ events' = <<Event(op, 0, FALSE, FALSE, score, s, <<>>, args, 0)>>
  /\ sinceCrash' = IF op = "onCrash" THEN 0 ELSE Elapse(sinceCrash, dt)
  /\ steps' = steps + 1
  /\ UNCHANGED <<courseVars, gameVars>>

CallAdd(points, applyCombo) ==
  Call("add", <<points, applyCombo>>, ScoreAdd(score, points, applyCombo), 0)

CallGateCleared(a) ==
  Call("onGateCleared", a, OnGateCleared(score, a[1], a[2], a[3]), 0)

CallPenalty(points) == Call("onPenalty", <<points>>, OnPenalty(score, points), 0)

CallCrash(speed) == Call("onCrash", <<speed>>, OnCrash(score, speed), 0)

CallBreakCombo(flash) == Call("breakCombo", <<flash>>, BreakCombo(score, flash), 0)

CallUpdate(dt) == Call("update", <<dt>>, ScoreUpdate(score, dt), dt)

NextScore ==
  \/ \E p \in AddPoints, ac \in BOOLEAN : CallAdd(p, ac)
  \/ \E a \in ClearArgs : CallGateCleared(a)
  \/ \E p \in PenaltyPoints : CallPenalty(p)
  \/ \E sp \in CrashSpeeds : CallCrash(sp)
  \/ \E f \in BOOLEAN : CallBreakCombo(f)
  \/ \E dt \in UpdateDts : CallUpdate(dt)

SpecScore == InitScore /\ [][NextScore]_vars

----------------------------------------------------------------------------
(* The ScoreSystem called with numbers that are not finite as well         *)

NonFinite == {NaN, Inf(1), Inf(-1)}

NonFiniteClearArgs == {<<NaN, Inf(1), Fin(500)>>, <<Fin(1000), NaN, Inf(-1)>>}

NextScoreInput ==
  \/ NextScore
  \/ \E p \in NonFinite, ac \in BOOLEAN : CallAdd(p, ac)
  \/ \E a \in NonFiniteClearArgs : CallGateCleared(a)
  \/ \E p \in NonFinite : CallPenalty(p)
  \/ \E sp \in NonFinite : CallCrash(sp)

SpecScoreInput == InitScore /\ [][NextScoreInput]_vars

----------------------------------------------------------------------------
(* The spawn decisions alone: chooseLane called again and again            *)

SpawnDecision(r) ==
  LET cl == chooseLane(lastLane, sameLaneStreak, r)
  IN /\ lastLane' = cl.lastLane
     /\ sameLaneStreak' = cl.sameLaneStreak
     /\ laneLog' = Remember(laneLog, cl.lane)
     /\ events' = <<Event("chooseLane", 0, FALSE, FALSE, score, score, <<>>,
                          <<lastLane, sameLaneStreak, cl.lane>>, 0)>>
     /\ UNCHANGED <<score, gates, fallbackForward, sinceCrash, credits, misses, sighted, steps,
                     gameVars>>

NextLane == \E r \in LaneDraws : SpawnDecision(r)

SpecLane == Init /\ [][NextLane]_vars

----------------------------------------------------------------------------
(* The ScoreSystem left to decay: update(dt) with dt > 0 is called as long *)
(* as the combo can still fall, between a bounded number of gate clears    *)

\* gate clears per behaviour
DecayClears == 1

\* the dt drawn: 0.5 s and 5 s
DecayDts == {10, 100}

DecayTick(dt) ==
  /\ score.combo > 1000
  /\ score' = ScoreUpdate(score, dt)
  /\ events' = <<Event("update", 0, FALSE, FALSE, score, score', <<>>, <<dt>>, 0)>>
  /\ sinceCrash' = Elapse(sinceCrash, dt)
  /\ UNCHANGED <<courseVars, gameVars, steps>>

Ticking == \E dt \in DecayDts : DecayTick(dt)

NextDecay ==
  \/ Ticking
  \/ \E a \in ClearArgs : steps < DecayClears /\ CallGateCleared(a)

SpecDecay == InitScore /\ [][NextDecay]_vars /\ WF_vars(Ticking)

----------------------------------------------------------------------------
(* The ScoreSystem with its calls kept: `events` holds every call made so  *)
(* far, oldest first                                                       *)

\* dt of 0.25 s, 1.0 s and 1.3 s
KeepDts == {5, 20, 26}

KeepPenalties == {Fin(1400), Fin(5)}

\* one public call, added to the calls kept
Logged(op, args, s, dt) ==
  /\ steps < MaxCalls
  /\ score' = s
  /\ events' = Append(events, Event(op, 0, FALSE, FALSE, score, s, <<>>, args, 0))
  /\ sinceCrash' = Elapse(sinceCrash, dt)
  /\ steps' = steps + 1
  /\ UNCHANGED <<courseVars, gameVars>>

NextKeep ==
  \/ \E p \in AddPoints, ac \in BOOLEAN :
       Logged("add", <<p, ac>>, ScoreAdd(score, p, ac), 0)
  \/ \E a \in ClearArgs :
       Logged("onGateCleared", a, OnGateCleared(score, a[1], a[2], a[3]), 0)
  \/ \E p \in KeepPenalties : Logged("onPenalty", <<p>>, OnPenalty(score, p), 0)
  \/ \E f \in BOOLEAN : Logged("breakCombo", <<f>>, BreakCombo(score, f), 0)
  \/ \E dt \in KeepDts : Logged("update", <<dt>>, ScoreUpdate(score, dt), dt)

SpecKeep == Init /\ [][NextKeep]_vars

----------------------------------------------------------------------------
(* Claims                                                                  *)

\* the entries of `events` that are about gates or calls of kind op
EventsOf(op) == {k \in 1..Len(events) : events[k].op = op}

\* the drone position and forward vector of the frame `events` is about
FramePos == events[1].args[1]

FrameFwd == events[1].args[2]

\* C1 (pool invariant): in every state reached by frames the pool holds exactly
\* gateCount gate records; no frame, recycle, miss or pass adds or removes one.
C1_PoolSize == Len(gates) = gateCount

\* a frame in which a gate was missed and respawned, after an earlier pass
C1_Witness ==
  /\ score.gatesPassed >= 1
  /\ \E k \in EventsOf("recycle") : events[k].calls # <<>>
  /\ Len(gates) = gateCount

\* C2 (no double credit): a slot is credited at most once between two of its
\* respawns, only while its passed flag is false, and stays passed afterwards.
C2_NoDoubleCredit ==
  /\ \A i \in 1..Len(gates) : credits[i] <= 1 /\ (credits[i] = 1 => gates[i].passed)
  /\ \A k \in EventsOf("cleared") : ~events[k].passed /\ events[k].nth = 1

\* the drone is inside the trigger volume of a gate credited in an earlier frame,
\* and this frame did not credit it
C2_Witness ==
  /\ Len(events) >= 1 /\ events[1].op = "update"
  /\ \E i \in 1..Len(gates) :
       /\ gates[i].passed /\ credits[i] = 1
       /\ Inside(worldToLocal(gates[i], FramePos))
       /\ \A k \in EventsOf("cleared") : events[k].slot # i

\* C3 (miss requires prior visibility): a recycled gate makes calls on the ScoreSystem
\* exactly when, at the moment of recycling, passed is false and wasAhead is true;
\* otherwise the ScoreSystem is left as it was.
C3_MissNeedsAhead ==
  \A k \in EventsOf("recycle") :
    /\ (events[k].calls # <<>>) <=> (~events[k].passed /\ events[k].wasAhead)
    /\ (events[k].passed \/ ~events[k].wasAhead) => events[k].after = events[k].before

\* a gate never seen ahead is recycled while there is a score to lose, and nothing is lost
C3_Witness ==
  \E k \in EventsOf("recycle") :
    /\ ~events[k].passed /\ ~events[k].wasAhead
    /\ events[k].before.score > 0
    /\ events[k].after.score = events[k].before.score

\* C4 (score non-negativity): the score is 0 after construction and never negative
\* after any call; a penalty larger than the score leaves exactly 0.
C4_ScoreNonNegative ==
  /\ score.score >= 0
  /\ (steps = 0 /\ score.gatesPassed = 0) => score.score = 0
  /\ \A k \in EventsOf("onPenalty") :
       TruncTenths(Abs(events[k].args[1].v)) >= events[k].before.score
         => events[k].after.score = 0
  /\ \A k \in EventsOf("add") :
       (~events[k].args[2] /\ -TruncTenths(events[k].args[1].v) >= events[k].before.score)
         => events[k].after.score = 0

\* a penalty larger than a positive score has just been applied
C4_Witness ==
  \E k \in EventsOf("onPenalty") :
    /\ events[k].before.score > 0
    /\ TruncTenths(Abs(events[k].args[1].v)) > events[k].before.score
    /\ score.score = 0

\* C5 (combo bounds): 1.0 <= combo <= 3.0 in every state reached by any interleaving
\* of the public calls.
C5_ComboBounds == 1000 <= score.combo /\ score.combo <= COMBO_MAX

\* a clear that would have taken the combo past 3.0 has left it at 3.0
C5_Witness ==
  \E k \in EventsOf("onGateCleared") :
    /\ events[k].before.combo + COMBO_GROW_PER_GATE > COMBO_MAX
    /\ score.combo = COMBO_MAX

\* C6 (lane run-length bound): no lane is returned more than 3 times in a row.
C6_LaneRunBound ==
  \A k \in 1..(Len(laneLog) - 3) :
    ~(laneLog[k] = laneLog[k + 1] /\ laneLog[k] = laneLog[k + 2] /\ laneLog[k] = laneLog[k + 3])

\* a run of exactly three equal lanes has just ended the log
C6_Witness ==
  LET n == Len(laneLog)
  IN /\ n >= 4
     /\ laneLog[n] = laneLog[n - 1] /\ laneLog[n] = laneLog[n - 2]
     /\ laneLog[n] # laneLog[n - 3]

\* C7 (combo-lock effectiveness): while less than 0.55 s of update time has passed
\* since the last onCrash, the lock still runs for the rest of the 0.55 s whatever
\* was called in between, the combo is 1.0, and an onGateCleared adds its points
\* and leaves the combo as it was.
C7_ComboLock ==
  (sinceCrash >= 0 /\ sinceCrash < COMBO_LOCK_SEC) =>
    /\ score.comboLock = COMBO_LOCK_SEC - sinceCrash
    /\ score.combo = 1000
    /\ \A k \in EventsOf("onGateCleared") :
         /\ events[k].after.combo = events[k].before.combo
         /\ events[k].after.score =
              events[k].before.score + (events[k].args[1].v \div 10)
                + (events[k].args[2].v \div 10) + (events[k].args[3].v \div 10)
         /\ events[k].after.score > events[k].before.score

\* a gate cleared 0.25 s after a crash: points added, combo still 1.0
C7_Witness ==
  /\ sinceCrash > 0 /\ sinceCrash < COMBO_LOCK_SEC
  /\ \E k \in EventsOf("onGateCleared") :
       /\ events[k].after.score = events[k].before.score + 230
       /\ events[k].after.combo = 1000

\* what C8 says of one update
DecayStep ==
  \A k \in EventsOf("update") :
    LET e == events[k]
    IN (e.args[1] > 0 /\ e.before.timeSinceScore > DECAY_AFTER /\ e.before.combo > 1000) =>
         /\ e.after.combo = Max(1000, e.before.combo - 9 * e.args[1])
         /\ e.after.combo < e.before.combo
         /\ (e.after.combo = 1000 => e.after.streak = 0)

\* C8 (decay trigger): once timeSinceScore is above 1.25 s, every update(dt) with
\* dt > 0 lowers a combo above 1.0 by 0.18*dt, floored at 1.0, and sets streak to 0
\* when it arrives at 1.0; with updates going on, a combo above 1.0 comes down to
\* 1.0 with streak 0.
C8_Decay ==
  /\ []DecayStep
  /\ (score.combo > 1000) ~> (score.combo = 1000 /\ score.streak = 0)

\* an update has just brought a combo above 1.0 down to 1.0 and reset the streak
C8_Witness ==
  \E k \in EventsOf("update") :
    /\ events[k].before.timeSinceScore > DECAY_AFTER
    /\ events[k].before.combo > 1000 /\ events[k].before.streak > 0
    /\ score.combo = 1000 /\ score.streak = 0

\* C9 (miss handling): a gate that meets the recycle condition with passed false and
\* wasAhead true costs, in that frame, min(score, 140) points whatever the combo,
\* leaves combo 1.0 and streak 0, is respawned 70..220 m ahead with clean flags, and
\* is the first miss of that spawn.
C9_MissHandling ==
  \A k \in EventsOf("recycle") :
    LET e == events[k]
    IN (~e.passed /\ e.wasAhead) =>
         /\ e.after.score = e.before.score - Min(e.before.score, missPenalty)
         /\ e.after.combo = 1000 /\ e.after.streak = 0
         /\ e.nth = 1
         /\ misses[e.slot] = 0
         /\ ~gates[e.slot].passed /\ ~gates[e.slot].wasAhead
         /\ AheadOf(gates[e.slot], FramePos, FrameFwd) >= spawnMin
         /\ AheadOf(gates[e.slot], FramePos, FrameFwd) <= spawnMax

\* a miss at a combo above 1.0 and a score above the penalty
C9_Witness ==
  \E k \in EventsOf("recycle") :
    /\ ~events[k].passed /\ events[k].wasAhead
    /\ events[k].before.combo > 1000
    /\ events[k].before.score > missPenalty
    /\ events[k].after.score = events[k].before.score - missPenalty

\* C10 (onCrash): the score falls by min(score, max(120, floor(120 + 22*speed))),
\* whatever the combo; combo 1.0, streak 0, comboLock 0.55 s and penaltyFlash 1.0
\* are left; speed 10 costs 340 and a speed <= 0 costs 120.
C10_Crash ==
  \A k \in EventsOf("onCrash") :
    LET e   == events[k]
        v   == e.args[1].v
        pen == Max(120, (1200 + 22 * v) \div 10)
    IN /\ e.after.score = e.before.score - Min(e.before.score, pen)
       /\ e.after.combo = 1000 /\ e.after.streak = 0
       /\ e.after.comboLock = 11 /\ e.after.penaltyFlash = 1000
       /\ (v = 100 => pen = 340)
       /\ (v <= 0 => pen = 120)

\* a crash at speed 10 with a combo above 1.0 and more than 340 points
C10_Witness ==
  \E k \in EventsOf("onCrash") :
    /\ events[k].args[1] = Fin(100)
    /\ events[k].before.combo > 1000 /\ events[k].before.score > 340
    /\ score.score = events[k].before.score - 340

\* Math.trunc(Math.trunc(points) * c) for points in tenths and c in thousandths
PointsAt(x, c) == TruncTimesCombo(TruncTenths(x.v), c)

\* C11 (points of a clear): onGateCleared(base, centering, speed) with finite arguments
\* >= 0 raises the score by trunc(trunc(base)*c) + trunc(trunc(centering)*c) +
\* trunc(trunc(speed)*c), c the combo before the call: each value is multiplied and
\* truncated on its own, the growth of the same call is not in c, and (100, 80, 50)
\* at combo 1.0 adds exactly 230.
C11_ClearPoints ==
  \A k \in EventsOf("onGateCleared") :
    LET e == events[k]
        c == e.before.combo
    IN (\A j \in 1..3 : IsFinite(e.args[j]) /\ e.args[j].v >= 0) =>
         /\ e.after.score = e.before.score + PointsAt(e.args[1], c)
                              + PointsAt(e.args[2], c) + PointsAt(e.args[3], c)
         /\ (c = 1000 /\ e.args = <<Fin(1000), Fin(800), Fin(500)>>)
              => e.after.score = e.before.score + 230

\* a clear whose three truncations lose more than one truncation of the sum would,
\* in a call that also grew the combo
C11_Witness ==
  \E k \in EventsOf("onGateCleared") :
    LET e == events[k]
        c == e.before.combo
    IN /\ e.args = <<Fin(1000), Fin(800), Fin(500)>>
       /\ e.after.combo > c
       /\ PointsAt(e.args[1], c) + PointsAt(e.args[2], c) + PointsAt(e.args[3], c)
            < TruncTimesCombo(230, c)
       /\ e.after.score - e.before.score < TruncTimesCombo(230, c)

\* C12 (streak, gatesPassed and growth of a clear): every onGateCleared adds exactly 1
\* to streak and to gatesPassed, lock or no lock; it takes the combo to
\* min(3.0, combo + 0.12) when comboLock <= 0 and leaves it unchanged when comboLock > 0.
C12_ClearCounters ==
  \A k \in EventsOf("onGateCleared") :
    LET e == events[k]
    IN /\ e.after.streak = e.before.streak + 1
       /\ e.after.gatesPassed = e.before.gatesPassed + 1
       /\ e.before.comboLock <= 0 =>
            e.after.combo = Min(3000, e.before.combo + 120)
       /\ e.before.comboLock > 0 => e.after.combo = e.before.combo

\* a clear under a running lock: both counters went up, the combo did not
C12_Witness ==
  \E k \in EventsOf("onGateCleared") :
    /\ events[k].before.comboLock > 0
    /\ events[k].before.gatesPassed > 0
    /\ score.streak = events[k].before.streak + 1
    /\ score.gatesPassed = events[k].before.gatesPassed + 1
    /\ score.combo = events[k].before.combo

\* C13 (onPenalty): for finite points the score falls by min(score, trunc(|points|)),
\* whatever the sign of points and whatever the combo; combo 1.0, streak 0 and
\* penaltyFlash 1.0 are left, also when the penalty is 0 or the score was 0.
C13_Penalty ==
  \A k \in EventsOf("onPenalty") :
    LET e   == events[k]
        pen == TruncTenths(Abs(e.args[1].v))
    IN IsFinite(e.args[1]) =>
         /\ e.after.score = e.before.score - Min(e.before.score, pen)
         /\ e.after.combo = 1000 /\ e.after.streak = 0
         /\ e.after.penaltyFlash = 1000

\* a penalty given as a negative number, at a combo above 1.0, taken off in full
C13_Witness ==
  \E k \in EventsOf("onPenalty") :
    /\ events[k].args[1] = Fin(-605)
    /\ events[k].before.combo > 1000 /\ events[k].before.score > 60
    /\ score.score = events[k].before.score - 60
    /\ score.combo = 1000 /\ score.penaltyFlash = 1000


\* C14 (lane bookkeeping): every spawn decision returns a lane of {-1, 0, +1}; with
\* sameLaneStreak >= 2 before it the lane differs from lastLane; afterwards
\* sameLaneStreak is one more if the lane equals the old lastLane and 0 otherwise, and
\* lastLane is the lane returned; sameLaneStreak is always 0, 1 or 2.
C14_LaneBookkeeping ==
  /\ sameLaneStreak \in {0, 1, 2}
  /\ lastLane \in {-1, 0, 1}
  /\ \A k \in EventsOf("chooseLane") :
       LET oldLast   == events[k].args[1]
           oldStreak == events[k].args[2]
           lane      == events[k].args[3]
       IN /\ lane \in {-1, 0, 1}
          /\ oldStreak >= 2 => lane # oldLast
          /\ sameLaneStreak = (IF lane = oldLast THEN oldStreak + 1 ELSE 0)
          /\ lastLane = lane

\* a decision taken at sameLaneStreak = 2: another lane, and the streak back at 0
C14_Witness ==
  \E k \in EventsOf("chooseLane") :
    /\ events[k].args[2] = 2
    /\ events[k].args[3] # events[k].args[1]
    /\ lastLane = events[k].args[3]
    /\ sameLaneStreak = 0

\* the last three lanes returned are all lane 0
LastThreeZero ==
  LET n == Len(laneLog)
  IN n >= 3 /\ laneLog[n] = 0 /\ laneLog[n - 1] = 0 /\ laneLog[n - 2] = 0

\* C15 as stated: no three successive spawn decisions choose lane 0.
C15_NoTripleZero == ~LastThreeZero

\* C15 (amended): three successive decisions on lane 0 come only after a decision on
\* another lane, never as the first three decisions and never as part of four.
C15_TripleZeroAfterChange ==
  LastThreeZero => (Len(laneLog) >= 4 /\ laneLog[Len(laneLog) - 3] # 0)

\* lanes +1, 0, 0, 0 have just been returned, and the next decision is forced off lane 0
C15_Witness ==
  /\ Len(laneLog) >= 4
  /\ LastThreeZero
  /\ laneLog[Len(laneLog) - 3] = 1
  /\ lastLane = 0 /\ sameLaneStreak = 2


\* C16 (two-pass ordering): a gate respawned in the recycle pass of a frame is not
\* credited in the pass checks of the same frame: at the end of the frame it has
\* passed = false and no onGateCleared was made for it.
C16_RecycledNotCredited ==
  \A k \in EventsOf("recycle") :
    LET i == events[k].slot
    IN /\ ~gates[i].passed
       /\ credits[i] = 0
       /\ \A j \in EventsOf("cleared") : events[j].slot # i

\* a frame that respawned one gate and credited another
C16_Witness ==
  \E k \in EventsOf("recycle"), j \in EventsOf("cleared") :
    /\ events[j].slot # events[k].slot
    /\ gates[events[j].slot].passed
    /\ ~gates[events[k].slot].passed

\* C17 as stated: a gate that in every tick since its last spawn (or since construction)
\* was behind the drone or farther than farRecycle from it is recycled without a change
\* of score, combo or streak.
C17_UnsightedNotPenalised ==
  \A k \in EventsOf("recycle") :
    ~events[k].args[2] =>
      /\ events[k].after.score = events[k].before.score
      /\ events[k].after.combo = events[k].before.combo
      /\ events[k].after.streak = events[k].before.streak


\* the position of an update with 0 written for every non-finite component
ZeroSubstituted(pos) ==
  <<IF IsFinite(pos[1]) THEN pos[1].v ELSE 0,
    IF IsFinite(pos[2]) THEN pos[2].v ELSE 0,
    IF IsFinite(pos[3]) THEN pos[3].v ELSE 0>>

\* C18 as stated: an update whose position or speed is not finite stores nothing that
\* is not finite and behaves as if the value were 0: it credits only gates whose
\* trigger volume holds the position with 0 put for the non-finite components.
C18_NonFiniteAsZero ==
  (events # <<>> /\ events[1].op = "update"
     /\ (~VecFinite(events[1].args[1]) \/ ~IsFinite(events[1].args[3]))) =>
    /\ \A i \in 1..Len(gates) : gates[i].position \in Int \X Int \X Int
    /\ fallbackForward \in Int \X Int \X Int
    /\ score.score \in Int /\ score.combo \in Int /\ score.lastAdd \in Int
    /\ \A j \in EventsOf("cleared") :
         Inside(worldToLocal(gates[events[j].slot], ZeroSubstituted(events[1].args[1])))


\* the fields of the ScoreSystem that hold numbers
NumberFields ==
  {"score", "lastAdd", "combo", "streak", "gatesPassed",
   "timeSinceScore", "comboLock", "penaltyFlash"}

\* C19 (non-finite scoring input): after add, onGateCleared, onPenalty or onCrash with
\* a NaN or infinite argument every number field is still a finite number; add with
\* non-finite points changes no field; onCrash with a non-finite speed takes exactly
\* the base penalty 120 (min(score, 120) off the score); onPenalty with non-finite
\* points only breaks the combo; onGateCleared adds the points of its finite arguments.
C19_NonFiniteScoring ==
  /\ \A f \in NumberFields : score[f] \in Int
  /\ \A k \in EventsOf("add") :
       ~IsFinite(events[k].args[1]) => events[k].after = events[k].before
  /\ \A k \in EventsOf("onCrash") :
       events[k].args[1] \in NonFinite =>
         /\ events[k].after.score = events[k].before.score - Min(events[k].before.score, 120)
         /\ events[k].after.lastAdd = -120
  /\ \A k \in EventsOf("onPenalty") :
       events[k].args[1] \in NonFinite =>
         events[k].after = BreakCombo(events[k].before, TRUE)
  /\ \A k \in EventsOf("onGateCleared") :
       LET e     == events[k]
           at(j) == IF IsFinite(e.args[j]) THEN PointsAt(e.args[j], e.before.combo) ELSE 0
       IN (\A j \in 1..3 : e.args[j] \in NonFinite \/ e.args[j].v >= 0) =>
            e.after.score = e.before.score + at(1) + at(2) + at(3)

\* a crash at speed +Infinity, from more than 120 points: exactly 120 taken
C19_Witness ==
  \E k \in EventsOf("onCrash") :
    /\ events[k].args[1] = Inf(1)
    /\ events[k].before.score > 120 /\ events[k].before.combo > 1000
    /\ score.score = events[k].before.score - 120
    /\ score.lastAdd = -120


\* C20 (breakCombo): breakCombo(flash) leaves combo 1.0, streak 0 and timeSinceScore
\* at the sentinel, sets penaltyFlash to 1.0 only when flash is true, and leaves score,
\* lastAdd, gatesPassed and comboLock as they were; while nothing has been scored
\* since (timeSinceScore still at or above the sentinel) an update leaves the combo
\* as it is.
C20_BreakCombo ==
  /\ \A k \in EventsOf("breakCombo") :
       LET e == events[k]
       IN /\ e.after.combo = 1000 /\ e.after.streak = 0
          /\ e.after.timeSinceScore = TIME_SENTINEL
          /\ e.after.penaltyFlash = (IF e.args[1] THEN 1000 ELSE e.before.penaltyFlash)
          /\ e.after.score = e.before.score
          /\ e.after.lastAdd = e.before.lastAdd
          /\ e.after.gatesPassed = e.before.gatesPassed
          /\ e.after.comboLock = e.before.comboLock
  /\ \A k \in EventsOf("update") :
       events[k].before.timeSinceScore >= TIME_SENTINEL =>
         events[k].after.combo = events[k].before.combo

\* breakCombo(false) on a combo above 1.0 with points on the board and no flash showing
C20_Witness ==
  \E k \in EventsOf("breakCombo") :
    /\ ~events[k].args[1]
    /\ events[k].before.combo > 1000 /\ events[k].before.streak > 0
    /\ events[k].before.score > 0 /\ events[k].before.lastAdd # 0
    /\ score.combo = 1000 /\ score.streak = 0
    /\ score.penaltyFlash = 0
    /\ score.score = events[k].before.score

\* an update of 1.5 s right after a combo break: the combo stays at 1.0
C20_TickAfterBreak ==
  \E k \in EventsOf("update") :
    /\ events[k].args[1] = 30
    /\ events[k].before.timeSinceScore = TIME_SENTINEL
    /\ events[k].before.gatesPassed > 0
    /\ score.combo = 1000


\* C21 (forward vector): an update uses the normalised XZ velocity when its squared
\* magnitude is above 0.6, else (0,0,-1) turned by the yaw of the quaternion when one is
\* given, else the forward vector of the update before; the remembered vector is the
\* one used, so it goes back to (0,0,-1) only when that is the direction derived.
C21_Forward ==
  (events # <<>> /\ events[1].op = "update") =>
    LET m    == events[1].args[5]
        prev == events[1].args[6]
        used == events[1].args[2]
        fast == m.vel.given /\ m.vel.x * m.vel.x + m.vel.z * m.vel.z > 60
    IN /\ fast => used = <<Sgn(m.vel.x), 0, Sgn(m.vel.z)>>
       /\ (~fast /\ m.quat.given /\ m.quat.yaw = 1) => used = <<-1, 0, 0>>
       /\ (~fast /\ m.quat.given /\ m.quat.yaw = 2) => used = <<0, 0, 1>>
       /\ (~fast /\ ~m.quat.given) => used = prev
       /\ fallbackForward = used

\* an update with a velocity below the threshold and no quaternion, after the forward
\* had turned away from (0,0,-1): the turned vector is used again and kept
C21_Witness ==
  /\ events # <<>> /\ events[1].op = "update"
  /\ events[1].args[5].vel.given /\ events[1].args[5].vel.x = 7
  /\ ~events[1].args[5].quat.given
  /\ events[1].args[6] # <<0, 0, -1>>
  /\ fallbackForward = events[1].args[6]


\* C22 as stated: after onPenalty, as after onCrash, a window runs in which
\* onGateCleared does not grow the combo.
C22_LockAfterPenalty ==
  \A k \in EventsOf("onPenalty") : ~GrowthAllowed(events[k].after)

\* C22 (amended): onPenalty leaves comboLock as it was; a lock runs only in the
\* 0.55 s of update time after an onCrash, and a gate cleared with no lock running
\* grows the combo, penalty before it or not.
C22_LockOnlyAfterCrash ==
  /\ \A k \in EventsOf("onPenalty") :
       events[k].after.comboLock = events[k].before.comboLock
  /\ \A k \in EventsOf("onCrash") : events[k].after.comboLock = COMBO_LOCK_SEC
  /\ score.comboLock > 0 => (sinceCrash >= 0 /\ sinceCrash < COMBO_LOCK_SEC)
  /\ \A k \in EventsOf("onGateCleared") :
       (sinceCrash < 0 \/ sinceCrash >= COMBO_LOCK_SEC) =>
         events[k].after.combo = Min(COMBO_MAX, events[k].before.combo + COMBO_GROW_PER_GATE)

\* a gate cleared right after onPenalty(140), no crash ever: the combo grows to 1.12
C22_Witness ==
  /\ sinceCrash < 0
  /\ \E k \in EventsOf("onGateCleared") :
       /\ events[k].before.lastAdd = -140
       /\ events[k].before.penaltyFlash = 1000
       /\ events[k].before.timeSinceScore = TIME_SENTINEL
       /\ events[k].before.combo = 1000
       /\ events[k].after.score > events[k].before.score
       /\ score.combo = 1120


\* C23 (calls of a miss): the frame that recycles a gate with passed false and wasAhead
\* true makes, for that gate, exactly one onPenalty(140) call and exactly one
\* breakCombo call on the ScoreSystem, in this order and once per spawn, and then
\* respawns the gate: a lane from chooseLane, a place ahead of the drone, the depth
\* axis along the forward vector.
C23_MissCalls ==
  \A k \in EventsOf("recycle") :
    LET e == events[k]
        g == gates[e.slot]
    IN (~e.passed /\ e.wasAhead) =>
         /\ e.calls = <<<<"onPenalty", Fin(1400)>>, <<"breakCombo", TRUE>>>>
         /\ e.nth = 1
         /\ Cardinality({j \in EventsOf("recycle") : events[j].slot = e.slot}) = 1
         /\ g.lane = e.args[1] /\ g.lane \in {-1, 0, 1}
         /\ g.zAxis = FrameFwd
         /\ AheadOf(g, FramePos, FrameFwd) >= spawnMin

\* a gate seen ahead and in range in an earlier frame, left behind unpassed and now
\* recycled with both calls
C23_Witness ==
  \E k \in EventsOf("recycle") :
    /\ ~events[k].passed /\ events[k].wasAhead
    /\ events[k].args[2]
    /\ FramePos # FarPoint
    /\ Len(events[k].calls) = 2
    /\ events[k].before.streak > 0 /\ events[k].after.streak = 0


\* the speed range the monotonicity of the speed score is checked on: 0 .. 40 m/s
SpeedRange == 0..400

\* C24 (arguments of a pass): every detected pass calls onGateCleared(100, centering,
\* speed score) once; the speed score is floor(50 * clamp(speed/18, 0, 1)): 0 at speed
\* 0, never falling as the speed rises, 50 from 18 m/s on; the centering score is a
\* whole number in 0..80 and 80 at the gate centre, so a dead-centre pass at 18 m/s
\* hands over (100, 80, 50).
C24_PassArguments ==
  /\ steps = 0 =>
       /\ SpeedScore(0) = 0
       /\ \A a \in SpeedRange : SpeedScore(a) <= SpeedScore(a + 1)
       /\ \A a \in SpeedRange : a >= 180 => SpeedScore(a) = 50
  /\ \A k \in EventsOf("cleared") :
       LET e     == events[k]
           speed == events[1].args[3]
           c     == e.calls[1]
       IN /\ Len(e.calls) = 1 /\ c[1] = "onGateCleared" /\ c[2] = Fin(1000)
          /\ IsFinite(c[3]) /\ c[3].v % 10 = 0 /\ c[3].v >= 0 /\ c[3].v <= 800
          /\ c[4] = Fin(10 * (IF speed >= 180 THEN 50 ELSE (50 * speed) \div 180))
          /\ (e.args[1] = 0 /\ e.args[2] = 0) => c[3] = Fin(800)
          /\ (e.args[1] = 0 /\ e.args[2] = 0 /\ speed = 180)
               => c = <<"onGateCleared", Fin(1000), Fin(800), Fin(500)>>

\* a pass off centre at 17.9 m/s: centering strictly between 0 and 80, speed score 49
C24_Witness ==
  \E k \in EventsOf("cleared") :
    /\ events[1].args[3] = 179
    /\ events[k].args[1] = 42 /\ events[k].args[2] = 24
    /\ events[k].calls[1][3].v > 0 /\ events[k].calls[1][3].v < 800
    /\ events[k].calls[1][4] = Fin(490)

\* a dead-centre pass at 18 m/s from a fresh ScoreSystem: 230 points
C24_ScenarioA ==
  \E k \in EventsOf("cleared") :
    /\ events[1].args[3] = 180
    /\ events[k].args = <<0, 0, 0>>
    /\ events[k].before.combo = 1000
    /\ events[k].after.score = events[k].before.score + 230


\* C25 (order within a frame): every miss penalty of a frame reaches the ScoreSystem
\* before any pass reward of that frame, each call working on what the one before
\* left, and the ScoreSystem's own update(dt) runs after all of them; so the first
\* gate cleared in a frame with a miss is scored at combo 1.0, and gates cleared in one
\* frame are credited in pool order, each at the combo the one before left.
C25_FrameOrder ==
  (events # <<>> /\ events[1].op = "update") =>
    /\ \A k \in EventsOf("recycle"), j \in EventsOf("cleared") : k < j
    /\ \A k \in 1..(Len(events) - 1) : events[k + 1].before = events[k].after
    /\ score = ScoreUpdate(events[Len(events)].after, events[1].args[4])
    /\ \A j, k \in EventsOf("cleared") : j < k => events[j].slot < events[k].slot
    /\ \A j \in EventsOf("cleared") :
         ((\E k \in EventsOf("recycle") : events[k].calls # <<>>)
            /\ \A i \in EventsOf("cleared") : j <= i)
           => /\ events[j].before.combo = 1000
              /\ events[j].after.score
                   = events[j].before.score + (events[j].calls[1][2].v \div 10)
                       + (events[j].calls[1][3].v \div 10) + (events[j].calls[1][4].v \div 10)

\* a frame that started at a combo above 1.0, missed a gate and cleared another: the
\* clear was scored at combo 1.0 and the combo grew from there
C25_Witness ==
  /\ events # <<>> /\ events[1].op = "update"
  /\ events[1].before.combo > 1000
  /\ \E k \in EventsOf("recycle"), j \in EventsOf("cleared") :
       /\ events[k].calls # <<>>
       /\ events[j].before.combo = 1000
       /\ events[j].after.combo = 1120
       /\ score.combo = 1120

\* two gates cleared in one frame, the second at the combo the first left
C25_TwoClears ==
  \E j, k \in EventsOf("cleared") :
    /\ j < k
    /\ events[j].slot < events[k].slot
    /\ events[k].before.combo = events[j].after.combo
    /\ events[k].before.combo > events[j].before.combo


\* the gates respawned in the frame `events` is about
Respawned == { events[k].slot : k \in EventsOf("recycle") }

\* C26 (clean respawn state): a gate respawned in a frame, after a miss or without one,
\* has passed = false and wasAhead = false, a lane in {-1, 0, +1}, and a position whose
\* component along the frame's forward vector, measured from the drone, is in
\* [spawnMin, spawnMax]; and passed goes from true to false in a frame only for a gate
\* that frame respawned.
C26_CleanRespawn ==
  /\ [](\A i \in Respawned :
          /\ ~gates[i].passed
          /\ ~gates[i].wasAhead
          /\ gates[i].lane \in {-1, 0, 1}
          /\ AheadOf(gates[i], FramePos, FrameFwd) >= spawnMin
          /\ AheadOf(gates[i], FramePos, FrameFwd) <= spawnMax)
  /\ [][\A i \in 1..gateCount :
          (gates[i].passed /\ ~gates'[i].passed)
            => \E k \in 1..Len(events') : events'[k].op = "recycle" /\ events'[k].slot = i]_vars

\* a frame that respawned one gate after a miss, far ahead, and one without a miss,
\* near; both came out clean
C26_Witness ==
  \E j, k \in EventsOf("recycle") :
    /\ events[j].calls # <<>>
    /\ events[k].calls = <<>> /\ events[k].passed
    /\ AheadOf(gates[events[j].slot], FramePos, FrameFwd) = spawnMax - 1
    /\ AheadOf(gates[events[k].slot], FramePos, FrameFwd) = spawnMin
    /\ ~gates[events[j].slot].passed /\ ~gates[events[k].slot].passed


\* the calls that add points
AddOps == {"add", "onGateCleared", "onPenalty", "onCrash"}

\* the latest call up to k that added a delta other than 0 (0 if there is none)
LastAddUpTo(k) ==
  LET S == {j \in 1..k : events[j].op \in AddOps /\ events[j].after.lastAdd # 0}
  IN IF S = {} THEN 0 ELSE CHOOSE j \in S : \A i \in S : i <= j

RECURSIVE TickTime(_, _)
\* the dt of the update calls among the calls a+1 .. k
TickTime(a, k) ==
  IF k <= a THEN 0
  ELSE TickTime(a, k - 1) + (IF events[k].op = "update" THEN events[k].args[1] ELSE 0)

\* C27 (no early decay): an update(dt) does not lower the combo when, dt included, at
\* most 1.25 s of update time have gone by since the last call that added a delta
\* other than 0 and no breakCombo was made since; and while only updates and adds of
\* 0 follow a gate clear that awarded points, the combo it left is there for the
\* first 1.25 s of update time.
C27_NoEarlyDecay ==
  \A k \in EventsOf("update") :
    LET a == LastAddUpTo(k)
    IN (/\ a > 0
        /\ TickTime(a, k) <= DECAY_AFTER
        /\ \A j \in (a + 1)..k : events[j].op # "breakCombo")
         => /\ events[k].after.combo >= events[k].before.combo
            /\ (/\ events[a].op = "onGateCleared"
                /\ \A j \in (a + 1)..k : events[j].op \in {"update", "add"})
                 => events[k].after.combo = events[a].after.combo

\* a clear raised the combo, and updates adding up to exactly 1.25 s left it there
C27_Witness ==
  /\ Len(events) >= 3
  /\ LET k == Len(events)
         a == LastAddUpTo(k)
     IN /\ events[k].op = "update"
        /\ a > 0 /\ a < k
        /\ events[a].op = "onGateCleared"
        /\ events[a].after.combo > events[a].before.combo
        /\ TickTime(a, k) = DECAY_AFTER
        /\ score.combo = events[a].after.combo

\* the update after: with more than 1.25 s gone by the combo comes down
C27_DecayAfter ==
  /\ Len(events) >= 2
  /\ LET k == Len(events)
         a == LastAddUpTo(k)
     IN /\ events[k].op = "update"
        /\ a > 0
        /\ TickTime(a, k) > DECAY_AFTER
        /\ events[k].after.combo < events[k].before.combo


\* the calls add(points, applyCombo) and onPenalty(points) made with a finite number
FiniteAdds ==
  {k \in EventsOf("add") \cup EventsOf("onPenalty") : IsFinite(events[k].args[1])}

\* the delta add() works out for the call events[k]
AppliedOf(k) ==
  LET e == events[k]
  IN IF e.op = "onPenalty" THEN -TruncTenths(Abs(e.args[1].v))
     ELSE IF e.args[2] THEN PointsAt(e.args[1], e.before.combo)
     ELSE TruncTenths(e.args[1].v)

\* C28 as stated: after every add with finite points lastAdd is the change of the
\* score, score after minus score before, also when a penalty was clamped at 0.
C28_LastAddIsChange ==
  \A k \in FiniteAdds :
    events[k].after.lastAdd = events[k].after.score - events[k].before.score

\* C28, amended: after every add with finite points lastAdd is the delta worked out
\* (points truncated, times the combo and truncated again when asked for), whether or
\* not the score could take all of it: it is the change of the score when the score
\* stays at or above 0, and below the change of the score when the score was clamped
\* at 0.
C28_LastAddIsApplied ==
  \A k \in FiniteAdds :
    LET e == events[k]
    IN /\ e.after.lastAdd = AppliedOf(k)
       /\ e.after.score = Max(0, e.before.score + AppliedOf(k))
       /\ e.before.score + AppliedOf(k) >= 0
            => e.after.lastAdd = e.after.score - e.before.score
       /\ e.before.score + AppliedOf(k) < 0
            => e.after.lastAdd < e.after.score - e.before.score

\* a penalty larger than the score: the score went to 0, lastAdd is the whole penalty
C28_Witness ==
  \E k \in EventsOf("onPenalty") :
    /\ events[k].args[1] = Fin(1400)
    /\ events[k].before.score > 0 /\ events[k].before.score < 140
    /\ score.score = 0
    /\ score.lastAdd = -140


\* C29 as stated: a gate respawned in a frame does not meet the recycle condition
\* against the drone position and forward vector of that frame (it is ahead and at
\* most farRecycle away), so two frames in a row with the same position and forward
\* vector never both recycle the same gate, and the second never penalises it.
C29_RespawnInRange ==
  /\ [](\A i \in Respawned :
          /\ AheadOf(gates[i], FramePos, FrameFwd) > 0
          /\ ~ShouldRecycle(gates[i], FramePos, FrameFwd))
  /\ [][(/\ events # <<>>
         /\ events'[1].args[1] = FramePos
         /\ events'[1].args[2] = FrameFwd)
          => \A k \in 1..Len(events') :
               (events'[k].op = "recycle" /\ events'[k].slot \in Respawned)
                 => FALSE]_vars

\* the second frame of a drone staying high up: a gate respawned in the first frame
\* is recycled again and penalised as a miss
C29_MissedAgain ==
  /\ steps = 2
  /\ FramePos = HighPoint
  /\ \E k \in EventsOf("recycle") :
       /\ events[k].calls # <<>>
       /\ events[k].nth = 1
       /\ ShouldRecycle(gates[events[k].slot], FramePos, FrameFwd)


\* the collision events of the drained queue that started and involve the drone
DroneHits ==
  LET hits == events[1].args[5]
  IN {i \in 1..Len(hits) : hits[i].started /\ hits[i].found /\ hits[i].drone}

\* C30 (collision-penalty cooldown): one frame's drain of the collision events makes
\* at most one onPenalty on the ScoreSystem, however many started events involve the
\* drone, the penalty being max(60, floor(35 * speed)); and a collision penalty is not
\* followed by another before 0.35 s of frame time have gone by.
C30_CollisionCooldown ==
  /\ Cardinality(EventsOf("collision")) <= 1
  /\ \A k \in EventsOf("collision") :
       LET e == events[k]
       IN /\ e.calls = <<<<"onPenalty", Fin(10 * Max(60, (35 * events[1].args[3]) \div 10))>>>>
          /\ e.after.score = e.before.score - Min(e.before.score, e.args[1])
          /\ DroneHits # {}
          /\ e.args[2] = -1 \/ e.args[2] >= CRASH_COOLDOWN_SEC
  /\ (sinceHit >= 0 /\ sinceHit < CRASH_COOLDOWN_SEC) => crashCooldown > 0

\* a frame whose queue held two started drone collisions, exactly 0.35 s after the
\* collision penalty before: one onPenalty was made, and it took points
C30_Witness ==
  /\ events # <<>> /\ events[1].op = "update"
  /\ Cardinality(DroneHits) = 2
  /\ \E k \in EventsOf("collision") :
       /\ events[k].args[2] = CRASH_COOLDOWN_SEC
       /\ events[k].after.score < events[k].before.score
  /\ Cardinality(EventsOf("collision")) = 1
  /\ sinceHit = 0

\* a frame within the 0.35 s: drone collisions in the queue, and no penalty
C30_Skipped ==
  /\ events # <<>> /\ events[1].op = "update"
  /\ DroneHits # {}
  /\ EventsOf("collision") = {}
  /\ sinceHit > 0 /\ sinceHit < CRASH_COOLDOWN_SEC


====
